---- MODULE Spec2Model ----
(***************************************************************************)
(* Model of the Depends and Copy build steps of vagga                      *)
(* (src/builder/commands/copy.rs): the permission policy calc_mode, the    *)
(* filter construction create_path_filter, the fingerprinting pass         *)
(* (hash, hash_path, get_sorted_rel_paths, hash_file_content) and the      *)
(* materialisation pass (build).                                           *)
(***************************************************************************)
EXTENDS Integers, Sequences, FiniteSets, TLC

VARIABLES
    cfg,              \* the step object: a Depends or a Copy struct
    rootKind,         \* what the filesystem holds at the step's root path
    pc,               \* position of the running operation
    arg,              \* input of a directly called function (calc_mode, ...)
    yielded,          \* entries the filter walk has yielded so far
    all_rel_paths,    \* the BTreeSet of get_sorted_rel_paths, in its order
    idx,              \* position of hash_path's loop over all_rel_paths
    digest,           \* the fields fed to the Digest, in order
    result,           \* what the operation returned
    ops,              \* the filesystem calls made, in order
    processed_paths   \* the HashSet of Copy::build

vars == <<cfg, rootKind, pc, arg, yielded, all_rel_paths, idx, digest,
          result, ops, processed_paths>>

(***************************************************************************)
(* Bounds of the model.                                                    *)
(***************************************************************************)
MaxDepth == 3     \* depth of the directory tree below the root
MaxWalk == 3      \* entries one filter walk yields at most
MaxRules == 2     \* length of a step's rules list

(***************************************************************************)
(* Constants of copy.rs.                                                   *)
(***************************************************************************)
DEFAULT_UMASK == 2
DIR_MODE == 511
FILE_MODE == 438
EXE_FILE_MODE == 511
EXE_CHECK_MASK == 64

\* Option<T>: None is the empty sequence, Some(v) the sequence of v alone.
None == <<>>
Some(v) == <<v>>
unwrap_or(opt, default) == IF opt = None THEN default ELSE opt[1]

\* The characters of a rule, one per element: a String is modelled by the
\* sequence of its characters so that starts_with is computed, not assumed.
DEFAULT_IGNORE_RULES ==
    << <<"!", ".", "g", "i", "t", "/">>,
       <<"!", ".", "h", "g", "/">>,
       <<"!", ".", "s", "v", "n", "/">>,
       <<"!", ".", "v", "a", "g", "g", "a", "/">>,
       <<"!", "*", ".", "b", "a", "k">>,
       <<"!", "*", ".", "o", "r", "i", "g">>,
       <<"!", "*", "~">>,
       <<"!", "#", "*", "#">>,
       <<"!", ".", "#", "*">> >>

DEFAULT_IGNORE_REGEX == "(^|/)\\.(git|hg|svn|vagga)($|/)|~$|\\.bak$|\\.orig$|^#.*#$"

(***************************************************************************)
(* u32 arithmetic: a & b and a & !b, bit by bit.  The recursion ends with  *)
(* the width of a, so !b is never built as a number.                       *)
(***************************************************************************)
RECURSIVE BitAnd(_, _)
BitAnd(a, b) ==
    IF a = 0 \/ b = 0 THEN 0
    ELSE (a % 2) * (b % 2) + 2 * BitAnd(a \div 2, b \div 2)

RECURSIVE BitAndNot(_, _)
BitAndNot(a, b) ==
    IF a = 0 THEN 0
    ELSE (a % 2) * (1 - (b % 2)) + 2 * BitAndNot(a \div 2, b \div 2)

(***************************************************************************)
(* Metadata.  A stat is [kind, mode, uid, gid]; mode is st_mode, the file  *)
(* type bits included, as PermissionsExt::mode returns it.                 *)
(***************************************************************************)
TypeBits(kind) ==
    CASE kind = "dir" -> 16384
      [] kind = "file" -> 32768
      [] kind = "symlink" -> 40960
      [] OTHER -> 4096

MkStat(kind, perm, uid, gid) ==
    [kind |-> kind, mode |-> TypeBits(kind) + perm, uid |-> uid, gid |-> gid]

is_symlink(stat) == stat.kind = "symlink"
is_dir(stat) == stat.kind = "dir"
is_file(stat) == stat.kind = "file"

(***************************************************************************)
(* Copy::calc_mode                                                         *)
(***************************************************************************)
calc_mode_sets_umask_bits(self, stat) ==
    IF is_symlink(stat) THEN None
    ELSE IF self.preserve_permissions THEN Some(stat.mode)
    ELSE LET base_mode ==
                 IF is_dir(stat) THEN DIR_MODE
                 ELSE IF BitAnd(stat.mode, EXE_CHECK_MASK) > 0
                      THEN EXE_FILE_MODE
                      ELSE FILE_MODE
         IN  Some(BitAnd(base_mode, self.umask))

calc_mode_any_exec_bit(self, stat) ==
    IF is_symlink(stat) THEN None
    ELSE IF self.preserve_permissions THEN Some(stat.mode)
    ELSE LET base_mode ==
                 IF is_dir(stat) THEN DIR_MODE
                 ELSE IF BitAnd(stat.mode, 73) > 0
                      THEN EXE_FILE_MODE
                      ELSE FILE_MODE
         IN  Some(BitAndNot(base_mode, self.umask))

calc_mode(self, stat) ==
    IF is_symlink(stat) THEN None
    ELSE IF self.preserve_permissions THEN Some(stat.mode)
    ELSE LET base_mode ==
                 IF is_dir(stat) THEN DIR_MODE
                 ELSE IF BitAnd(stat.mode, EXE_CHECK_MASK) > 0
                      THEN EXE_FILE_MODE
                      ELSE FILE_MODE
         IN  Some(BitAndNot(base_mode, self.umask))

(***************************************************************************)
(* create_path_filter.  compiles is the answer of the path_filter crate    *)
(* to PathFilter::glob / PathFilter::regex.                                *)
(***************************************************************************)
starts_with(rule, c) == Len(rule) > 0 /\ rule[1] = c

Ok(v) == [tag |-> "Ok", value |-> v]
Err(why) == [tag |-> "Err", value |-> why]

rules_and_regex_ignore_only(rules, no_default_rules, ignore_regex, include_regex) ==
    (rules # <<>> \/ no_default_rules # None) /\ ignore_regex # None

\* the guard of the first early return
rules_and_regex(rules, no_default_rules, ignore_regex, include_regex) ==
    (rules # <<>> \/ no_default_rules # None)
    /\ (ignore_regex # None \/ include_regex # None)

\* the guard of the early return in the loop over the rules
relative_rule(rule) == ~starts_with(rule, "!") /\ ~starts_with(rule, "/")

create_path_filter(rules, no_default_rules, ignore_regex, include_regex, compiles) ==
    IF rules_and_regex(rules, no_default_rules, ignore_regex, include_regex)
    THEN Err("You must specify either rules or regular expressions but not both")
    ELSE IF rules # <<>>
    THEN LET all_rules ==
                 (IF ~unwrap_or(no_default_rules, FALSE)
                  THEN DEFAULT_IGNORE_RULES ELSE <<>>) \o rules
         IN  IF \E i \in 1..Len(rules) : relative_rule(rules[i])
             THEN Err("Relative paths are allowed only for excluding rules")
             ELSE IF compiles
                  THEN Ok([type |-> "glob", rules |-> all_rules,
                           ignore |-> None, include |-> None])
                  ELSE Err("Can't compile copy filter")
    ELSE IF compiles
         THEN Ok([type |-> "regex", rules |-> <<>>,
                  ignore |-> IF ignore_regex # None THEN ignore_regex
                             ELSE Some(DEFAULT_IGNORE_REGEX),
                  include |-> include_regex])
         ELSE Err("Can't compile copy filter")

(***************************************************************************)
(* Paths.  A path is the sequence of its components.  The tree below the   *)
(* step's root: at every level a directory "a" and a leaf "b"; a leaf is a *)
(* regular file at odd depth and a symlink at even depth.                  *)
(***************************************************************************)
Names == {"a", "b"}
NameOrd(n) == IF n = "a" THEN 1 ELSE 2

Tree ==
    {p \in UNION {[1..n -> Names] : n \in 1..MaxDepth} :
        \A i \in 1..(Len(p) - 1) : p[i] = "a"}

join(base, rel) == base \o rel

\* Path::starts_with: whole components
path_starts_with(p, prefix) ==
    Len(p) >= Len(prefix) /\ SubSeq(p, 1, Len(prefix)) = prefix

\* Ord for Path: component by component, a proper prefix first
RECURSIVE PathLess(_, _)
PathLess(p, q) ==
    IF q = <<>> THEN FALSE
    ELSE IF p = <<>> THEN TRUE
    ELSE IF p[1] # q[1] THEN NameOrd(p[1]) < NameOrd(q[1])
    ELSE PathLess(Tail(p), Tail(q))

\* path_util::IterSelfAndParents: the path, then each of its ancestors,
\* innermost first, the root excluded
iter_self_and_parents(p) ==
    [i \in 1..Len(p) |-> SubSeq(p, 1, Len(p) - i + 1)]

Reverse(s) == [i \in 1..Len(s) |-> s[Len(s) - i + 1]]

\* symlink_metadata of an entry of the tree
StatOf(rel) ==
    IF rel[Len(rel)] = "a" THEN MkStat("dir", 493, 1000, 1000)
    ELSE IF Len(rel) % 2 = 1
         THEN MkStat("file", IF Len(rel) = 1 THEN 420 ELSE 493, 1000, 1000)
         ELSE MkStat("symlink", 511, 1000, 1000)

\* symlink_metadata of the root, when there is one
RootStat(kind) ==
    MkStat(kind, IF kind = "dir" THEN 493 ELSE IF kind = "file" THEN 420
                 ELSE 511, 1000, 1000)

FileContent(p) == <<"bytes of">> \o p
LinkTarget(p) == <<"target of">> \o p

(***************************************************************************)
(* Digest: the fields fed, in order.  opt_field feeds nothing for None.    *)
(***************************************************************************)
field(h, name, value) == Append(h, <<name, ToString(value)>>)
opt_field(h, name, opt) == IF opt = None THEN h ELSE field(h, name, opt[1])

\* A filesystem call, as the log keeps it
Call(op, path, out) ==
    [op |-> op, path |-> path, out |-> out, dest |-> <<>>,
     uid |-> None, gid |-> None, mode |-> None]

\* What a per-entry closure returns: the digest, the calls made, Ok or not
Fed(h, calls, ok) == [digest |-> h, calls |-> calls, ok |-> ok]

\* hash_file_content; rd is what open/read or read_link answers
hash_file_content(h, p, st, rd) ==
    IF is_file(st)
    THEN IF rd = "ok"
         THEN Fed(field(h, "file", FileContent(p)),
                  <<Call("open", p, "ok")>>, TRUE)
         ELSE Fed(h, <<Call("open", p, "error")>>, FALSE)
    ELSE IF is_symlink(st)
    THEN IF rd = "ok"
         THEN Fed(field(h, "symlink", LinkTarget(p)),
                  <<Call("read_link", p, "ok")>>, TRUE)
         ELSE Fed(h, <<Call("read_link", p, "error")>>, FALSE)
    ELSE Fed(h, <<>>, TRUE)

is_executable_any_bit(mode) == BitAnd(mode, 73) > 0

is_executable(mode) == BitAnd(mode, EXE_CHECK_MASK) > 0

\* the closure Depends::hash hands to hash_path
Depends_hash_file(h, p, st, rd) ==
    LET h1 == field(h, "filename", p)
        h2 == IF is_file(st)
              THEN field(h1, "is_executable", is_executable(st.mode))
              ELSE h1
    IN  hash_file_content(h2, p, st, rd)

\* the closure Copy::hash hands to hash_path
Copy_hash_file(self, h, p, st, rd) ==
    LET h1 == field(h, "filename", p)
        h2 == opt_field(h1, "mode", calc_mode(self, st))
        h3 == field(h2, "uid", unwrap_or(self.owner_uid, st.uid))
        h4 == field(h3, "gid", unwrap_or(self.owner_gid, st.gid))
    IN  hash_file_content(h4, p, st, rd)

hash_file(self, h, p, st, rd) ==
    IF self.kind = "Depends" THEN Depends_hash_file(h, p, st, rd)
    ELSE Copy_hash_file(self, h, p, st, rd)

(***************************************************************************)
(* The step objects.                                                       *)
(***************************************************************************)
Step(kind, source, path, uid, gid, umask, preserve, f) ==
    [kind |-> kind, source |-> source, path |-> path,
     owner_uid |-> uid, owner_gid |-> gid, umask |-> umask,
     preserve_permissions |-> preserve,
     ignore_regex |-> f.ignore_regex, include_regex |-> f.include_regex,
     rules |-> f.rules, no_default_rules |-> f.no_default_rules]

FilterCfg(rules, ndr, ignore, include) ==
    [rules |-> rules, no_default_rules |-> ndr,
     ignore_regex |-> ignore, include_regex |-> include]

NoFilter == FilterCfg(<<>>, None, None, None)

RNone == [tag |-> "none", why |-> "", path |-> <<>>, dest |-> <<>>]
Ret(tag, why, path, dest) ==
    [tag |-> tag, why |-> why, path |-> path, dest |-> dest]
ROk == Ret("Ok", "", <<>>, <<>>)

Blank ==
    /\ yielded = {}
    /\ all_rel_paths = <<>>
    /\ idx = 0
    /\ digest = <<>>
    /\ result = RNone
    /\ ops = <<>>
    /\ processed_paths = {}

(***************************************************************************)
(* calc_mode called on every kind of entry, permission and umask.          *)
(***************************************************************************)
Kinds == {"dir", "file", "symlink", "fifo"}
Perms == 0..511
Umasks == {0, 2, 18, 23, 63, 73, 365, 511}

ModeInit ==
    /\ pc = "calc_mode"
    /\ cfg \in {Step("Copy", <<"work", "s">>, <<"dest">>, None, None, u, p,
                     NoFilter) : u \in Umasks, p \in BOOLEAN}
    /\ arg \in {MkStat(k, m, 1000, 1000) : k \in Kinds, m \in Perms}
    /\ rootKind = "dir"
    /\ Blank

call_calc_mode ==
    /\ pc = "calc_mode"
    /\ result' = calc_mode(cfg, arg)
    /\ pc' = "done"
    /\ UNCHANGED <<cfg, rootKind, arg, yielded, all_rel_paths, idx, digest,
                   ops, processed_paths>>

SpecMode == ModeInit /\ [][call_calc_mode]_vars

(***************************************************************************)
(* create_path_filter called on every short rule list and regex setting.   *)
(***************************************************************************)
RuleTexts == {<<"!", "x">>, <<"/", "x">>, <<"x">>, <<>>}
RuleLists == UNION {[1..n -> RuleTexts] : n \in 0..MaxRules}

FilterInit ==
    /\ pc = "create_path_filter"
    /\ arg \in [rules : RuleLists,
                no_default_rules : {None, Some(TRUE), Some(FALSE)},
                ignore_regex : {None, Some("^x")},
                include_regex : {None, Some("x$")},
                compiles : BOOLEAN]
    /\ cfg = Step("Copy", <<"work", "s">>, <<"dest">>, None, None,
                  DEFAULT_UMASK, FALSE, arg)
    /\ rootKind = "dir"
    /\ Blank

call_create_path_filter ==
    /\ pc = "create_path_filter"
    /\ LET r == create_path_filter(arg.rules, arg.no_default_rules,
                                   arg.ignore_regex, arg.include_regex,
                                   arg.compiles)
       IN  result' = Ret(r.tag, IF r.tag = "Err" THEN r.value ELSE "",
                         <<>>, <<>>)
    /\ pc' = "done"
    /\ UNCHANGED <<cfg, rootKind, arg, yielded, all_rel_paths, idx, digest,
                   ops, processed_paths>>

SpecFilter == FilterInit /\ [][call_create_path_filter]_vars

(***************************************************************************)
(* Depends::hash's closure run on two regular files of the same path and   *)
(* content whose permission bits may differ.                               *)
(***************************************************************************)
PairPerms == {m \in Perms : BitAndNot(m, 489) = 0}

PairInit ==
    /\ pc = "hash_pair"
    /\ arg \in [m1 : PairPerms, m2 : PairPerms]
    /\ cfg = Step("Depends", <<>>, <<"s">>, None, None, DEFAULT_UMASK,
                  FALSE, NoFilter)
    /\ rootKind = "file"
    /\ Blank

call_hash_pair ==
    /\ pc = "hash_pair"
    /\ LET p == join(<<"work">>, cfg.path)
           a == Depends_hash_file(<<>>, p, MkStat("file", arg.m1, 1000, 1000),
                                  "ok")
           b == Depends_hash_file(<<>>, p, MkStat("file", arg.m2, 1000, 1000),
                                  "ok")
       IN  digest' = <<a.digest, b.digest>>
    /\ result' = ROk
    /\ pc' = "done"
    /\ UNCHANGED <<cfg, rootKind, arg, yielded, all_rel_paths, idx, ops,
                   processed_paths>>

SpecPair == PairInit /\ [][call_hash_pair]_vars

(***************************************************************************)
(* The steps the build pipeline may hold, and the filesystem under them.   *)
(***************************************************************************)
FilterCfgs ==
    { NoFilter,
      FilterCfg(<< <<"/", "x">> >>, None, None, None),
      FilterCfg(<< <<"!", "x">> >>, None, Some("^x"), None),
      FilterCfg(<< <<"x">> >>, None, None, None),
      FilterCfg(<<>>, Some(FALSE), None, Some("x$")) }

Owners == {<<None, None>>, <<Some(0), Some(5)>>}

DependsSteps ==
    {Step("Depends", <<>>, <<"s">>, None, None, DEFAULT_UMASK, FALSE, f) :
        f \in FilterCfgs}

CopySteps ==
    {Step("Copy", s, <<"dest">>, o[1], o[2], u, p, f) :
        s \in {<<"work", "s">>, <<"tmp", "s">>}, o \in Owners,
        u \in {DEFAULT_UMASK, 18}, p \in BOOLEAN, f \in FilterCfgs}

RootKinds == {"dir", "file", "symlink", "missing"}

Init ==
    /\ pc = "idle"
    /\ cfg \in DependsSteps \cup CopySteps
    /\ rootKind \in RootKinds
    /\ arg = [fn |-> "none", build |-> FALSE]
    /\ Blank

Return(r) == result' = r /\ pc' = "done"

\* what symlink_metadata answers: io is the environment's part of it
outcome(exists, io) ==
    IF io = "denied" THEN "Other"
    ELSE IF io = "gone" \/ ~exists THEN "NotFound"
    ELSE "Ok"

root_path(self) ==
    IF self.kind = "Depends" THEN join(<<"work">>, self.path)
    ELSE self.source

compile_filter(self, compiles) ==
    create_path_filter(self.rules, self.no_default_rules, self.ignore_regex,
                       self.include_regex, compiles)

(***************************************************************************)
(* Depends::hash and Copy::hash, up to the call of hash_path.              *)
(***************************************************************************)
Depends_hash(compiles) ==
    /\ pc = "idle"
    /\ cfg.kind = "Depends"
    /\ arg' = [fn |-> "hash", build |-> FALSE]
    /\ LET filter == compile_filter(cfg, compiles)
       IN  IF filter.tag = "Err"
           THEN Return(Ret("String", filter.value, <<>>, <<>>))
           ELSE pc' = "hash_path" /\ result' = result
    /\ UNCHANGED <<cfg, rootKind, yielded, all_rel_paths, idx, digest, ops,
                   processed_paths>>

in_workspace_always(src) == TRUE

\* src.starts_with("/work")
in_workspace(src) == path_starts_with(src, <<"work">>)

\* the fields of the branch for a source outside of /work
Copy_hash_parameters(self, h) ==
    LET h1 == field(h, "source", self.source)
        h2 == field(h1, "path", self.path)
        h3 == field(h2, "preserve_permissions", self.preserve_permissions)
    IN  IF ~self.preserve_permissions
        THEN field(opt_field(opt_field(h3, "owner_uid", self.owner_uid),
                             "owner_gid", self.owner_gid),
                   "umask", self.umask)
        ELSE h3

Copy_hash(compiles) ==
    /\ pc = "idle"
    /\ cfg.kind = "Copy"
    /\ arg' = [fn |-> "hash", build |-> FALSE]
    /\ IF in_workspace(cfg.source)
       THEN /\ LET filter == compile_filter(cfg, compiles)
               IN  IF filter.tag = "Err"
                   THEN Return(Ret("String", filter.value, <<>>, <<>>))
                   ELSE pc' = "hash_path" /\ result' = result
            /\ digest' = digest
       ELSE /\ digest' = Copy_hash_parameters(cfg, digest)
            /\ Return(ROk)
    /\ UNCHANGED <<cfg, rootKind, yielded, all_rel_paths, idx, ops,
                   processed_paths>>

(***************************************************************************)
(* hash_path                                                               *)
(***************************************************************************)
root_stat_error_always_io(out, path) == Ret("Io", "", path, <<>>)

\* the two Err arms of the match on path.symlink_metadata()
root_stat_error(out, path) ==
    IF out = "NotFound" THEN Ret("New", "", <<>>, <<>>)
    ELSE Ret("Io", "", path, <<>>)

hash_path_root(io, rd) ==
    /\ pc = "hash_path"
    /\ LET path == root_path(cfg)
           out == outcome(rootKind # "missing", io)
           f == hash_file(cfg, digest, path, RootStat(rootKind), rd)
       IN  IF out # "Ok"
           THEN /\ ops' = Append(ops, Call("stat", path, out))
                /\ digest' = digest
                /\ Return(root_stat_error(out, path))
           ELSE /\ digest' = f.digest
                /\ IF ~f.ok
                   THEN /\ ops' = ops \o <<Call("stat", path, out)>> \o f.calls
                        /\ Return(Ret("Io", "", path, <<>>))
                   ELSE IF rootKind = "dir"
                   THEN /\ ops' = ops \o <<Call("stat", path, out)>> \o f.calls
                                      \o <<Call("walk", path, "")>>
                        /\ pc' = "get_sorted_rel_paths"
                        /\ result' = result
                   ELSE /\ ops' = ops \o <<Call("stat", path, out)>> \o f.calls
                        /\ pc' = "hash_path_done"
                        /\ result' = result
    /\ UNCHANGED <<cfg, rootKind, arg, yielded, all_rel_paths, idx,
                   processed_paths>>

(***************************************************************************)
(* get_sorted_rel_paths.  The BTreeSet is the sequence of its elements in  *)
(* their order; the walk yields the entries below the root that pass the   *)
(* filter, in an order of its own.                                         *)
(***************************************************************************)
contains(set, p) == \E i \in 1..Len(set) : set[i] = p

BTreeSet_insert_at_end(set, p) == Append(set, p)

BTreeSet_insert(set, p) ==
    LET k == Cardinality({i \in 1..Len(set) : PathLess(set[i], p)})
    IN  SubSeq(set, 1, k) \o <<p>> \o SubSeq(set, k + 1, Len(set))

\* the loop over rel_path.iter_self_and_parents()
RECURSIVE insert_each(_, _)
insert_each(set, parents) ==
    IF parents = <<>> THEN set
    ELSE insert_each(IF ~contains(set, Head(parents))
                     THEN BTreeSet_insert(set, Head(parents))
                     ELSE set,
                     Tail(parents))

insert_entry_without_parents(set, rel_path) == insert_each(set, <<rel_path>>)

\* the body of the loop over the walk's entries
insert_entry(set, rel_path) ==
    insert_each(set, iter_self_and_parents(rel_path))

get_sorted_rel_paths_entry(entry) ==
    /\ pc = "get_sorted_rel_paths"
    /\ entry \notin yielded
    /\ Cardinality(yielded) < MaxWalk
    /\ yielded' = yielded \cup {entry}
    /\ all_rel_paths' = insert_entry(all_rel_paths, entry)
    /\ UNCHANGED <<cfg, rootKind, pc, arg, idx, digest, result, ops,
                   processed_paths>>

get_sorted_rel_paths_end(ok) ==
    /\ pc = "get_sorted_rel_paths"
    /\ IF ok
       THEN /\ pc' = IF all_rel_paths = <<>> THEN "hash_path_done"
                     ELSE "hash_entries"
            /\ idx' = 1
            /\ result' = result
       ELSE /\ Return(Ret("PathFilter", "", root_path(cfg), <<>>))
            /\ idx' = idx
    /\ UNCHANGED <<cfg, rootKind, arg, yielded, all_rel_paths, digest, ops,
                   processed_paths>>

\* one round of the loop over all_rel_paths
hash_path_entry(io, rd) ==
    /\ pc = "hash_entries"
    /\ LET abs_path == join(root_path(cfg), all_rel_paths[idx])
           out == outcome(TRUE, io)
           f == hash_file(cfg, digest, abs_path, StatOf(all_rel_paths[idx]),
                          rd)
       IN  IF out # "Ok"
           THEN /\ ops' = Append(ops, Call("stat", abs_path, out))
                /\ digest' = digest
                /\ idx' = idx
                /\ Return(Ret("Io", "", abs_path, <<>>))
           ELSE /\ ops' = ops \o <<Call("stat", abs_path, out)>> \o f.calls
                /\ digest' = f.digest
                /\ IF ~f.ok
                   THEN idx' = idx /\ Return(Ret("Io", "", abs_path, <<>>))
                   ELSE /\ idx' = idx + 1
                        /\ pc' = IF idx = Len(all_rel_paths)
                                 THEN "hash_path_done" ELSE pc
                        /\ result' = result
    /\ UNCHANGED <<cfg, rootKind, arg, yielded, all_rel_paths,
                   processed_paths>>

\* hash_path has returned Ok: the rest of Depends::hash and Copy::hash
hash_finish ==
    /\ pc = "hash_path_done"
    /\ digest' = IF cfg.kind = "Copy" THEN field(digest, "path", cfg.path)
                 ELSE digest
    /\ Return(ROk)
    /\ UNCHANGED <<cfg, rootKind, arg, yielded, all_rel_paths, idx, ops,
                   processed_paths>>

(***************************************************************************)
(* Depends::build and Copy::build                                          *)
(***************************************************************************)
Depends_build(build) ==
    /\ pc = "idle"
    /\ cfg.kind = "Depends"
    /\ arg' = [fn |-> "build", build |-> build]
    /\ Return(ROk)
    /\ UNCHANGED <<cfg, rootKind, yielded, all_rel_paths, idx, digest, ops,
                   processed_paths>>

VaggaRoot == <<"vagga", "root">>

\* a call of file_util::shallow_copy, with the arguments build passes
shallow_copy(self, src, st, dest, out) ==
    [op |-> "shallow_copy", path |-> src, out |-> out, dest |-> dest,
     uid |-> self.owner_uid, gid |-> self.owner_gid,
     mode |-> calc_mode(self, st)]

\* the closure run under temporary_change_root, up to the walk
Copy_build_in_root(io, cp, compiles) ==
    LET src == cfg.source
        dest == cfg.path
        out == outcome(rootKind # "missing", io)
        enter == <<Call("change_root", VaggaRoot, "Ok")>>
        leave == <<Call("restore_root", VaggaRoot, "Ok")>>
        stat == Call("stat", src, out)
        copy == shallow_copy(cfg, src, RootStat(rootKind), dest, cp)
        filter == compile_filter(cfg, compiles)
    IN  IF out # "Ok"
        THEN /\ ops' = ops \o enter \o <<stat>> \o leave
             /\ Return(Ret("Read", "", src, <<>>))
        ELSE IF cp # "ok"
        THEN /\ ops' = ops \o enter \o <<stat, copy>> \o leave
             /\ Return(Ret("Copy", "", src, dest))
        ELSE IF rootKind # "dir"
        THEN /\ ops' = ops \o enter \o <<stat, copy>> \o leave
             /\ Return(ROk)
        ELSE IF filter.tag = "Err"
        THEN /\ ops' = ops \o enter \o <<stat, copy>> \o leave
             /\ Return(Ret("String", filter.value, <<>>, <<>>))
        ELSE /\ ops' = ops \o enter \o <<stat, copy, Call("walk", src, "")>>
             /\ pc' = "build_walk"
             /\ result' = result

Copy_build_whatever_the_flag(build, io, cp, compiles) ==
    /\ pc = "idle"
    /\ cfg.kind = "Copy"
    /\ arg' = [fn |-> "build", build |-> build]
    /\ Copy_build_in_root(io, cp, compiles)
    /\ UNCHANGED <<cfg, rootKind, yielded, all_rel_paths, idx, digest,
                   processed_paths>>

Copy_build(build, io, cp, compiles) ==
    /\ pc = "idle"
    /\ cfg.kind = "Copy"
    /\ arg' = [fn |-> "build", build |-> build]
    /\ IF ~build
       THEN Return(ROk) /\ ops' = ops
       ELSE Copy_build_in_root(io, cp, compiles)
    /\ UNCHANGED <<cfg, rootKind, yielded, all_rel_paths, idx, digest,
                   processed_paths>>

\* take_while(|p| !processed_paths.contains(*p))
take_while_unprocessed(parents, processed) ==
    LET stop == {i \in 1..Len(parents) : parents[i] \in processed}
        n == IF stop = {} THEN Len(parents)
             ELSE (CHOOSE i \in stop : \A j \in stop : i <= j) - 1
    IN  SubSeq(parents, 1, n)

parents_deepest_first(path, processed) ==
    take_while_unprocessed(iter_self_and_parents(path), processed)

\* the paths the inner loop visits for one entry: parents.iter().rev()
parents_to_copy(path, processed) ==
    Reverse(take_while_unprocessed(iter_self_and_parents(path), processed))

\* One entry of the walk: the first k parents are replicated; when k is
\* not all of them, the next one fails in symlink_metadata or shallow_copy.
Copy_build_entry(entry, k, fail) ==
    /\ pc = "build_walk"
    /\ entry \notin yielded
    /\ Cardinality(yielded) < MaxWalk
    /\ LET src == cfg.source
           dest == cfg.path
           parents == parents_to_copy(entry, processed_paths)
           leave == <<Call("restore_root", VaggaRoot, "Ok")>>
           done == [j \in 1..(2 * k) |->
                      LET parent == parents[(j + 1) \div 2]
                      IN  IF j % 2 = 1
                          THEN Call("stat", join(src, parent), "Ok")
                          ELSE shallow_copy(cfg, join(src, parent),
                                            StatOf(parent),
                                            join(dest, parent), "ok")]
       IN  /\ k \in 0..Len(parents)
           /\ (fail = "none") <=> (k = Len(parents))
           /\ processed_paths' =
                  processed_paths \cup {parents[i] : i \in 1..k}
           /\ IF fail = "none"
              THEN ops' = ops \o done /\ pc' = pc /\ result' = result
              ELSE LET fsrc == join(src, parents[k + 1])
                       fdest == join(dest, parents[k + 1])
                   IN  IF fail = "stat"
                       THEN /\ ops' = ops \o done
                                      \o <<Call("stat", fsrc, "Other")>>
                                      \o leave
                            /\ Return(Ret("Read", "", src, <<>>))
                       ELSE /\ ops' = ops \o done
                                      \o <<Call("stat", fsrc, "Ok"),
                                           shallow_copy(cfg, fsrc,
                                               StatOf(parents[k + 1]),
                                               fdest, "error")>>
                                      \o leave
                            /\ Return(Ret("Copy", "", fsrc, fdest))
    /\ yielded' = yielded \cup {entry}
    /\ UNCHANGED <<cfg, rootKind, arg, all_rel_paths, idx, digest>>

\* the walk is over: its own errors, if any, are the step's
Copy_build_end(ok) ==
    /\ pc = "build_walk"
    /\ ops' = Append(ops, Call("restore_root", VaggaRoot, "Ok"))
    /\ Return(IF ok THEN ROk
              ELSE Ret("PathFilter", "", cfg.source, <<>>))
    /\ UNCHANGED <<cfg, rootKind, arg, yielded, all_rel_paths, idx, digest,
                   processed_paths>>

StatAnswers == {"ok", "gone", "denied"}
ReadAnswers == {"ok", "error"}

Next ==
    \/ \E compiles \in BOOLEAN : Depends_hash(compiles)
    \/ \E compiles \in BOOLEAN : Copy_hash(compiles)
    \/ \E io \in StatAnswers, rd \in ReadAnswers : hash_path_root(io, rd)
    \/ \E entry \in Tree : get_sorted_rel_paths_entry(entry)
    \/ \E ok \in BOOLEAN : get_sorted_rel_paths_end(ok)
    \/ \E io \in StatAnswers, rd \in ReadAnswers : hash_path_entry(io, rd)
    \/ hash_finish
    \/ \E build \in BOOLEAN : Depends_build(build)
    \/ \E build \in BOOLEAN, io \in StatAnswers, cp \in ReadAnswers,
          compiles \in BOOLEAN : Copy_build(build, io, cp, compiles)
    \/ \E entry \in Tree, k \in 0..MaxDepth,
          fail \in {"none", "stat", "copy"} : Copy_build_entry(entry, k, fail)
    \/ \E ok \in BOOLEAN : Copy_build_end(ok)

Spec == Init /\ [][Next]_vars

(***************************************************************************)
(* Vocabulary of the properties.                                           *)
(***************************************************************************)
Bit(x, i) == (x \div (2 ^ i)) % 2
OwnerExec(mode) == Bit(mode, 6) = 1
ExecBits(mode) == <<Bit(mode, 6), Bit(mode, 3), Bit(mode, 0)>>
AnyExec(mode) == ExecBits(mode) # <<0, 0, 0>>

\* r is base with every bit of umask cleared
Masked(r, base, umask) ==
    /\ r \in 0..511
    /\ \A i \in 0..8 :
          Bit(r, i) = IF Bit(umask, i) = 1 THEN 0 ELSE Bit(base, i)

Range(s) == {s[i] : i \in 1..Len(s)}
AncestorsAndSelf(p) == {SubSeq(p, 1, n) : n \in 1..Len(p)}
AncestorClosure(S) == UNION {AncestorsAndSelf(p) : p \in S}

RECURSIVE SortedSeq(_)
SortedSeq(S) ==
    IF S = {} THEN <<>>
    ELSE LET m == CHOOSE x \in S : \A y \in S : x = y \/ PathLess(x, y)
         IN  <<m>> \o SortedSeq(S \ {m})

InsideWork(self) == self.kind = "Depends" \/ self.source[1] = "work"

\* the fields of the entries of paths (relative to root), fed after h
RECURSIVE FieldsOf(_, _, _, _)
FieldsOf(self, h, root, paths) ==
    IF paths = <<>> THEN h
    ELSE FieldsOf(self,
                  hash_file(self, h, join(root, Head(paths)),
                            StatOf(Head(paths)), "ok").digest,
                  root, Tail(paths))

\* the successful shallow_copy calls, in order
Copies == SelectSeq(ops, LAMBDA c : c.op = "shallow_copy" /\ c.out = "ok")
Failed == {i \in 1..Len(ops) : ops[i].out \in {"NotFound", "Other", "error"}}

(***************************************************************************)
(* C1: for a fixed tree and step, the fields fed by Depends.hash and by    *)
(* Copy.hash of a source inside /work are the root's, then those of every  *)
(* path of the ancestor-inclusive set of the yielded entries in sorted     *)
(* order (then Copy's destination): the same whatever the order in which   *)
(* the walk yielded the entries.                                           *)
(***************************************************************************)
C1_HashIsWalkOrderIndependent ==
    (pc = "done" /\ arg.fn = "hash" /\ result.tag = "Ok" /\ rootKind = "dir"
        /\ InsideWork(cfg))
    => LET root == root_path(cfg)
           first == hash_file(cfg, <<>>, root, RootStat("dir"), "ok").digest
           tree == FieldsOf(cfg, first, root,
                            SortedSeq(AncestorClosure(yielded)))
       IN  digest = IF cfg.kind = "Copy"
                    THEN Append(tree, <<"path", ToString(cfg.path)>>)
                    ELSE tree

C1_Witness ==
    /\ pc = "done" /\ arg.fn = "hash" /\ result.tag = "Ok"
    /\ cfg.kind = "Copy"
    /\ yielded = {<<"b">>, <<"a", "a", "b">>}
    /\ Len(all_rel_paths) = 4

(***************************************************************************)
(* C2: Copy.hash of a source outside /work makes no filesystem call and    *)
(* runs no walk; it feeds source, path, preserve_permissions and, only     *)
(* when preserve_permissions is false, owner_uid, owner_gid (when set) and *)
(* umask: the fingerprint is a function of the declared parameters alone.  *)
(***************************************************************************)
C2_ExternalSourceHashesParametersOnly ==
    (arg.fn = "hash" /\ cfg.kind = "Copy" /\ cfg.source[1] # "work")
    => /\ ops = <<>>
       /\ yielded = {}
       /\ pc = "done"
       /\ result = ROk
       /\ digest =
            << <<"source", ToString(cfg.source)>>,
               <<"path", ToString(cfg.path)>>,
               <<"preserve_permissions",
                 ToString(cfg.preserve_permissions)>> >>
            \o (IF cfg.preserve_permissions THEN <<>>
                ELSE (IF cfg.owner_uid = None THEN <<>>
                      ELSE << <<"owner_uid", ToString(cfg.owner_uid[1])>> >>)
                     \o (IF cfg.owner_gid = None THEN <<>>
                         ELSE << <<"owner_gid",
                                   ToString(cfg.owner_gid[1])>> >>)
                     \o << <<"umask", ToString(cfg.umask)>> >>)

C2_Witness ==
    /\ pc = "done" /\ arg.fn = "hash" /\ cfg.kind = "Copy"
    /\ cfg.source = <<"tmp", "s">>
    /\ rootKind = "dir"
    /\ ~cfg.preserve_permissions
    /\ cfg.owner_uid = Some(0)
    /\ Len(digest) = 6

(***************************************************************************)
(* C3, as claimed: under Depends.hash two regular files of the same path   *)
(* and content hash identically when their modes differ in no execute bit, *)
(* and differently when their execute bits differ.                         *)
(***************************************************************************)
C3_AsClaimed ==
    pc = "done"
    => /\ (ExecBits(arg.m1) = ExecBits(arg.m2) => digest[1] = digest[2])
       /\ (ExecBits(arg.m1) # ExecBits(arg.m2) => digest[1] # digest[2])

(***************************************************************************)
(* C3, amended: the two files hash identically exactly when their owner    *)
(* execute bits (0o100) agree; a difference in any other bit, the group    *)
(* and other execute bits included, changes no field.                      *)
(***************************************************************************)
C3_OwnerExecBitOnly ==
    pc = "done"
    => /\ (OwnerExec(arg.m1) = OwnerExec(arg.m2) => digest[1] = digest[2])
       /\ (OwnerExec(arg.m1) # OwnerExec(arg.m2) => digest[1] # digest[2])

C3_Witness ==
    /\ pc = "done"
    /\ arg.m1 = 8 /\ arg.m2 = 0
    /\ digest[1] = digest[2]
    /\ Len(digest[1]) = 3

(***************************************************************************)
(* C4: calc_mode returns none for a symlink; the entry's mode unchanged    *)
(* when preserve_permissions is true; otherwise the base mode (0o777 for a *)
(* directory or an executable file, 0o666 for another file) with every     *)
(* umask bit cleared: 0o644 and 0o755 under umask 0o022.  Executable is    *)
(* what the code tests, the owner execute bit.                             *)
(***************************************************************************)
C4_CalcModePolicy ==
    pc = "done"
    => /\ arg.kind = "symlink" => result = None
       /\ (arg.kind # "symlink" /\ cfg.preserve_permissions)
             => result = Some(arg.mode)
       /\ (arg.kind # "symlink" /\ ~cfg.preserve_permissions)
             => /\ Len(result) = 1
                /\ Masked(result[1],
                          IF arg.kind = "dir" \/ OwnerExec(arg.mode)
                          THEN 511 ELSE 438,
                          cfg.umask)
                /\ (cfg.umask = 18 /\ arg.kind = "file")
                      => result[1] = IF OwnerExec(arg.mode) THEN 493 ELSE 420

C4_Witness ==
    /\ pc = "done"
    /\ arg.kind = "file" /\ arg.mode = TypeBits("file") + 493
    /\ ~cfg.preserve_permissions /\ cfg.umask = 18
    /\ result = Some(493)

(***************************************************************************)
(* C5: create_path_filter fails with a configuration error for every rule  *)
(* set with non-empty glob rules and a regex present, and for every rule   *)
(* list holding a rule that starts with neither "!" nor "/"; no filter is  *)
(* produced and nothing is walked.                                         *)
(***************************************************************************)
C5_ContradictoryRulesRejected ==
    pc = "done"
    => LET mixed == arg.rules # <<>>
                    /\ (arg.ignore_regex # None \/ arg.include_regex # None)
           relative == \E i \in 1..Len(arg.rules) :
                          arg.rules[i] = <<>>
                          \/ arg.rules[i][1] \notin {"!", "/"}
       IN  /\ mixed =>
                /\ result.tag = "Err"
                /\ result.why = "You must specify either rules or regular expressions but not both"
           /\ relative =>
                /\ result.tag = "Err"
                /\ result.why \in
                     {"You must specify either rules or regular expressions but not both",
                      "Relative paths are allowed only for excluding rules"}
           /\ ops = <<>>

C5_Witness ==
    /\ pc = "done"
    /\ arg.rules = << <<"/", "x">> >>
    /\ arg.ignore_regex = None /\ arg.include_regex # None
    /\ arg.compiles
    /\ result.tag = "Err"

(***************************************************************************)
(* C6: the path set of get_sorted_rel_paths is duplicate-free and          *)
(* ancestor-closed for every walk: it holds every yielded entry and every  *)
(* proper ancestor of a member below the root, and never the root.         *)
(***************************************************************************)
C6_RelPathsAncestorClosed ==
    LET S == Range(all_rel_paths)
    IN  /\ Cardinality(S) = Len(all_rel_paths)
        /\ <<>> \notin S
        /\ \A p \in S : \A n \in 1..(Len(p) - 1) : SubSeq(p, 1, n) \in S
        /\ arg.fn = "hash" => yielded \subseteq S
        /\ \A p \in S : \E e \in yielded : path_starts_with(e, p)

C6_Witness ==
    /\ pc = "hash_entries"
    /\ yielded = {<<"a", "a", "b">>}
    /\ all_rel_paths = << <<"a">>, <<"a", "a">>, <<"a", "a", "b">> >>

(***************************************************************************)
(* C7, as claimed: hashing a Depends path whose root does not exist yields *)
(* VersionError::New and feeds no field.                                   *)
(***************************************************************************)
C7_AsClaimed ==
    (pc = "done" /\ arg.fn = "hash" /\ cfg.kind = "Depends"
        /\ rootKind = "missing"
        /\ \A i \in 1..Len(ops) : ops[i].out # "Other")
    => (result.tag = "New" /\ digest = <<>>)

(***************************************************************************)
(* C7, amended: when the step's filter rules compile, hashing a Depends    *)
(* path whose root does not exist yields VersionError::New and feeds no    *)
(* field; New is returned in no other case; any other failure to stat the  *)
(* root and any failure to stat or read an entry below it yields           *)
(* VersionError::Io.                                                       *)
(***************************************************************************)
C7_FreshSignalOnlyForMissingRoot ==
    (pc = "done" /\ arg.fn = "hash" /\ cfg.kind = "Depends")
    => LET root == root_path(cfg)
           rootGone == ops = <<Call("stat", root, "NotFound")>>
       IN  /\ (rootKind = "missing" /\ result.tag # "String"
                  /\ \A i \in 1..Len(ops) : ops[i].out # "Other")
                 => (result.tag = "New" /\ digest = <<>>)
           /\ result.tag = "New" <=> rootGone
           /\ (Failed # {} /\ ~rootGone) => result.tag = "Io"

C7_Witness ==
    /\ pc = "done" /\ arg.fn = "hash" /\ cfg.kind = "Depends"
    /\ rootKind = "missing"
    /\ result.tag = "New"
    /\ Len(ops) = 1 /\ ops[1].op = "stat" /\ ops[1].out = "NotFound"

(***************************************************************************)
(* C8: Copy.build with the flag false returns success without entering the *)
(* alternate root, reading the source or replicating anything; so does     *)
(* Depends.build, for either value of the flag.                            *)
(***************************************************************************)
C8_BuildNoOp ==
    (arg.fn = "build" /\ (cfg.kind = "Depends" \/ ~arg.build))
    => /\ pc = "done"
       /\ result = ROk
       /\ ops = <<>>
       /\ yielded = {} /\ processed_paths = {}

C8_Witness ==
    /\ pc = "done" /\ arg.fn = "build" /\ ~arg.build
    /\ cfg.kind = "Copy" /\ rootKind = "dir"
    /\ result = ROk

(***************************************************************************)
(* C9, as claimed: with preserve_permissions false, calc_mode gives a      *)
(* regular file the base 0o777 if any of its execute bits is set and the   *)
(* base 0o666 only when none is.                                           *)
(***************************************************************************)
C9_AsClaimed ==
    (pc = "done" /\ arg.kind = "file" /\ ~cfg.preserve_permissions)
    => /\ Len(result) = 1
       /\ Masked(result[1], IF AnyExec(arg.mode) THEN 511 ELSE 438,
                 cfg.umask)

(***************************************************************************)
(* C9, amended: with preserve_permissions false, calc_mode gives a regular *)
(* file the base 0o777 if its owner execute bit (0o100) is set and the     *)
(* base 0o666 if it is clear, whatever its group and other execute bits.   *)
(***************************************************************************)
C9_ExecutableByOwnerBit ==
    (pc = "done" /\ arg.kind = "file" /\ ~cfg.preserve_permissions)
    => /\ Len(result) = 1
       /\ Masked(result[1], IF OwnerExec(arg.mode) THEN 511 ELSE 438,
                 cfg.umask)

C9_Witness ==
    /\ pc = "done" /\ arg.kind = "file" /\ ~cfg.preserve_permissions
    /\ arg.mode = TypeBits("file") + 9
    /\ cfg.umask = 0
    /\ result = Some(438)

(***************************************************************************)
(* C10: in Copy.build of a directory, whatever the order of the walk: the  *)
(* source directory is replicated first; the visited set is ancestor-      *)
(* closed after every entry; no path is replicated twice or before its     *)
(* parent; and in a successful build every path of the ancestor-inclusive  *)
(* set of the yielded entries is replicated exactly once.                  *)
(***************************************************************************)
C10_ReplicationOrder ==
    (arg.fn = "build" /\ pc \in {"build_walk", "done"} /\ Copies # <<>>)
    => LET src == cfg.source
           rel(c) == SubSeq(c.path, Len(src) + 1, Len(c.path))
           n == Len(Copies)
       IN  /\ Copies[1].path = src /\ Copies[1].dest = cfg.path
           /\ \A p \in processed_paths :
                 AncestorsAndSelf(p) \subseteq processed_paths
           /\ \A i, j \in 1..n : Copies[i].path = Copies[j].path => i = j
           /\ \A i \in 2..n :
                 /\ Copies[i].dest = join(cfg.path, rel(Copies[i]))
                 /\ \E j \in 1..(i - 1) :
                       Copies[j].path =
                           SubSeq(Copies[i].path, 1, Len(Copies[i].path) - 1)
           /\ (pc = "done" /\ result.tag = "Ok" /\ rootKind = "dir")
                 => {rel(Copies[i]) : i \in 2..n} = AncestorClosure(yielded)

C10_Witness ==
    /\ pc = "done" /\ arg.fn = "build" /\ result.tag = "Ok"
    /\ rootKind = "dir"
    /\ yielded = {<<"a", "a", "b">>, <<"a", "b">>, <<"a">>}
    /\ Len(Copies) = 5

(***************************************************************************)
(* C11, as claimed: a contradictory or malformed rule set (glob rules      *)
(* together with a regex, or a rule starting with neither "!" nor "/") on  *)
(* a Depends or Copy step always makes the step's hash fail with the       *)
(* configuration error, and neither hash nor build makes a filesystem call *)
(* (stat, read, walk, replicate) before returning that error.              *)
(***************************************************************************)
MalformedRules(self) ==
    \/ self.rules # <<>>
       /\ (self.ignore_regex # None \/ self.include_regex # None)
    \/ \E i \in 1..Len(self.rules) :
          self.rules[i] = <<>> \/ self.rules[i][1] \notin {"!", "/"}

C11_AsClaimed ==
    (pc = "done" /\ MalformedRules(cfg))
    => /\ arg.fn = "hash" => result.tag = "String"
       /\ result.tag = "String" => ops = <<>>

(***************************************************************************)
(* C12, as claimed: every I/O error of hashing or replication names the    *)
(* entry the failing call was made on (and its destination, for a failed   *)
(* replication), and the step stops at that first failure: no retry, no    *)
(* further entry.                                                          *)
(***************************************************************************)
C12_AsClaimed ==
    (pc = "done" /\ result.tag \in {"Io", "Read", "Copy"})
    => \E i \in 1..Len(ops) :
          /\ Failed = {i}
          /\ \A j \in (i + 1)..Len(ops) : ops[j].op = "restore_root"
          /\ result.path = ops[i].path
          /\ ops[i].op = "shallow_copy" => result.dest = ops[i].dest

\* C12 without the one call that breaks it: the stat of a nested entry in
\* Copy.build
C12_ExceptNestedStatInBuild ==
    (pc = "done" /\ result.tag \in {"Io", "Read", "Copy"})
    => \E i \in 1..Len(ops) :
          /\ Failed = {i}
          /\ \A j \in (i + 1)..Len(ops) : ops[j].op = "restore_root"
          /\ \/ result.path = ops[i].path
             \/ /\ arg.fn = "build" /\ ops[i].op = "stat"
                /\ ops[i].path # cfg.source
                /\ result = Ret("Read", "", cfg.source, <<>>)
          /\ ops[i].op = "shallow_copy" => result.dest = ops[i].dest

(***************************************************************************)
(* Two Copy steps over one filesystem: what hash feeds and which           *)
(* shallow_copy calls build makes, every filesystem call succeeding.  The  *)
(* walk is a function of the tree and of the filter: two steps with the    *)
(* same filter members see the same entries, and both walks meet the       *)
(* entries in the order of the one filesystem.                             *)
(***************************************************************************)
MaxPairWalk == 2     \* entries one walk yields at most, for a pair of steps

\* what a filter lets through: any entries below the root
Selections == {S \in SUBSET Tree : Cardinality(S) <= MaxPairWalk}

\* the order in which a walk of the one filesystem meets two entries: a
\* directory before what is in it, and in every directory the name the
\* listing gives first before the other
RECURSIVE walk_before(_, _, _)
walk_before(p, q, first) ==
    IF q = <<>> THEN FALSE
    ELSE IF p = <<>> THEN TRUE
    ELSE IF p[1] # q[1] THEN p[1] = first
    ELSE walk_before(Tail(p), Tail(q), first)

\* the entries of S as the walk yields them
RECURSIVE walk_of(_, _)
walk_of(S, first) ==
    IF S = {} THEN <<>>
    ELSE LET m == CHOOSE x \in S :
                     \A y \in S : x = y \/ walk_before(x, y, first)
         IN  <<m>> \o walk_of(S \ {m}, first)

\* get_sorted_rel_paths over a whole walk
RECURSIVE sorted_rel_paths_of(_, _)
sorted_rel_paths_of(set, walk) ==
    IF walk = <<>> THEN set
    ELSE sorted_rel_paths_of(insert_entry(set, Head(walk)), Tail(walk))

\* hash_path's loop over all_rel_paths
RECURSIVE hash_rel_paths(_, _, _, _)
hash_rel_paths(self, h, root, paths) ==
    IF paths = <<>> THEN h
    ELSE hash_rel_paths(self,
                        hash_file(self, h, join(root, Head(paths)),
                                  StatOf(Head(paths)), "ok").digest,
                        root, Tail(paths))

\* Copy::hash, from an empty Digest
Copy_hash_fields(self, kind, walk) ==
    IF in_workspace(self.source)
    THEN LET h == hash_file(self, <<>>, self.source, RootStat(kind),
                            "ok").digest
             tree == IF kind = "dir"
                     THEN hash_rel_paths(self, h, self.source,
                                         sorted_rel_paths_of(<<>>, walk))
                     ELSE h
         IN  field(tree, "path", self.path)
    ELSE Copy_hash_parameters(self, <<>>)

\* the loop of Copy::build over the walk: the shallow_copy calls it makes
RECURSIVE build_walk_calls(_, _, _, _)
build_walk_calls(self, calls, processed, walk) ==
    IF walk = <<>> THEN calls
    ELSE LET parents == parents_to_copy(Head(walk), processed)
             made == [i \in 1..Len(parents) |->
                        shallow_copy(self, join(self.source, parents[i]),
                                     StatOf(parents[i]),
                                     join(self.path, parents[i]), "ok")]
         IN  build_walk_calls(self, calls \o made,
                              processed \cup Range(parents), Tail(walk))

\* Copy::build with the flag true
Copy_build_calls(self, kind, walk) ==
    LET first == <<shallow_copy(self, self.source, RootStat(kind), self.path,
                                "ok")>>
    IN  IF kind = "dir" THEN build_walk_calls(self, first, {}, walk)
        ELSE first

same_filter(a, b) ==
    /\ a.rules = b.rules
    /\ a.no_default_rules = b.no_default_rules
    /\ a.ignore_regex = b.ignore_regex
    /\ a.include_regex = b.include_regex

PairSteps == {c \in CopySteps : compile_filter(c, TRUE).tag = "Ok"}

CopyPairInit ==
    /\ pc = "copy_pair"
    /\ cfg \in PairSteps
    /\ arg \in {[other |-> c, walks |-> <<>>] : c \in PairSteps}
    /\ arg.other.source = cfg.source
    /\ rootKind \in {"dir", "file", "symlink"}
    /\ Blank

call_copy_pair(sa, sb, first) ==
    LET wa == walk_of(sa, first)
        wb == walk_of(sb, first)
    IN  /\ pc = "copy_pair"
        /\ same_filter(cfg, arg.other) => sa = sb
        /\ rootKind # "dir" => (sa = {} /\ sb = {} /\ first = "a")
        /\ arg' = [arg EXCEPT !.walks = <<wa, wb>>]
        /\ digest' = <<Copy_hash_fields(cfg, rootKind, wa),
                       Copy_hash_fields(arg.other, rootKind, wb)>>
        /\ ops' = <<Copy_build_calls(cfg, rootKind, wa),
                    Copy_build_calls(arg.other, rootKind, wb)>>
        /\ result' = ROk
        /\ pc' = "done"
        /\ UNCHANGED <<cfg, rootKind, yielded, all_rel_paths, idx,
                       processed_paths>>

CopyPairNext ==
    \E sa \in Selections, sb \in Selections, first \in Names :
        call_copy_pair(sa, sb, first)

SpecCopyPair == CopyPairInit /\ [][CopyPairNext]_vars

(***************************************************************************)
(* C13, as claimed: two Copy steps over the same filesystem whose hash     *)
(* feeds identical digest fields make the same sequence of shallow_copy    *)
(* calls, with the same owner and mode arguments, in build.                *)
(***************************************************************************)
C13_AsClaimed ==
    (pc = "done" /\ digest[1] = digest[2]) => ops[1] = ops[2]

\* C13 for a source under /work, where hash walks the tree build copies
C13_ExceptExternal ==
    (pc = "done" /\ digest[1] = digest[2] /\ in_workspace(cfg.source))
    => ops[1] = ops[2]

====
